---- MODULE Spec2Model ----
(***************************************************************************)
(* socktest.c: an interactive harness that drives socket calls under four  *)
(* readiness models (blocking, non-blocking, select, signal-driven).       *)
(*                                                                         *)
(* The model follows one session of the command loop of main().  Registry  *)
(* commands (model, use, socket, close) are single steps.  The commands    *)
(* that wrap a socket call in the retry loop                               *)
(*     do { preAPISetup(c); if (gInterrupted) return;                      *)
(*          result = op(...); done = postAPISetup(result); } while (!done) *)
(* are split at every point where the process can be suspended or where a  *)
(* signal handler (SIGINT/SIGTSTP/SIGPIPE, SIGIO) can run in between.      *)
(*                                                                         *)
(* Time: the program uses the clock only in verifyBlocking, as the         *)
(* difference delta between a reading and callTime, compared with          *)
(* BLOCK_THRESHOLD.  The model keeps that difference (what verifyBlocking  *)
(* would compute if it ran now) and stops following it once it is past the *)
(* threshold.                                                              *)
(***************************************************************************)
EXTENDS Integers, Sequences, FiniteSets, TLC

(* ------------------------------ constants ------------------------------ *)

MAXSOCKETS == 10

UNUSED_FD == -1

BLOCK_THRESHOLD == 1000000

BUFFER_SIZE == 100

\* One polling interval: the select() timeout (tv_sec = 1) and sleep(1), in us.
POLL_INTERVAL == 1000000

\* The factor that turns the tv_sec difference into microseconds.
USEC_PER_SEC == 1000000

(* -------------------------------- bounds -------------------------------- *)

\* Commands dispatched in one behaviour of the registry sessions.
MaxCmds == 3

\* Commands dispatched in one behaviour of the retry-loop sessions.
MaxLoopCmds == 2

\* Invocations of the socket operation inside one command.
MaxCalls == 4

\* Calls of signal() that answer SIG_ERR in one behaviour.
MaxSigErr == 1

\* Largest tv_sec of a clock reading in the oracle sessions.
MaxSeconds == 3

(* ------------------------------ vocabulary ------------------------------ *)

Slots == 0 .. (MAXSOCKETS - 1)

Models == {"BLOCKING_MODEL", "NONBLOCKING_MODEL", "SELECT_MODEL", "SIGNAL_MODEL"}

\* Names the model command recognises; "" stands for a missing argument and
\* "bogus" for any other word.
ModelNames == {"", "blocking", "nonblocking", "select", "signal", "bogus"}

LoopCmds == {"connect", "accept", "recvmsg", "sendmsg", "read", "write"}

\* errno values the code distinguishes, "EBADF" for a call on fd -1 and
\* "EOTHER" for every other failure; "ENONE" is errno = 0.
TransientErrnos == {"EWOULDBLOCK", "EINPROGRESS", "EALREADY"}

Errnos == TransientErrnos \cup {"ENONE", "EBADF", "EOTHER"}

\* How long one invocation of the socket operation can take.
OpDurations == {0, BLOCK_THRESHOLD, BLOCK_THRESHOLD + 1}

\* A difference of clock readings that is past the threshold.
Stale == BLOCK_THRESHOLD + 1

VARIABLES
    \* program globals; delta stands for callTime (see above)
    gSockfd, gCurrent, model, gInterrupted, sigioReceived, shouldBlock, delta,
    \* process state kept by the operating system
    errno, sigioHandler, nonblockFds, asyncFds, ownedFds,
    \* position in main() and the locals of the running handler
    pc, cmd, newgCurrent, result, done, selDone,
    \* observations of the running iteration of the retry loop; sigioSeen:
    \* activeSIGIOHandler has run since this pre-call phase installed it
    lastSel, waitBegun, sigioSeen, preWait, opDur, oracle,
    \* observations of the running command
    cmdsLeft, opCalls, transients, outcome, gSockfd0, gCurrent0, released,
    \* observations of the interrupt; staleInt: the flag was set when the
    \* command was dispatched and the command has not called its operation yet;
    \* freshInt: a handler has run since the command was dispatched
    intCalls, pollsAfterInt, staleInt, freshInt,
    \* faults injected so far
    sigErrs,
    \* the two clock readings of the blocking oracle, followed as such only in
    \* the oracle sessions; the retry-loop sessions follow their difference
    callTime, returnTime

vars == <<gSockfd, gCurrent, model, gInterrupted, sigioReceived, shouldBlock,
          delta, errno, sigioHandler, nonblockFds, asyncFds, ownedFds,
          pc, cmd, newgCurrent, result, done, selDone,
          lastSel, waitBegun, sigioSeen, preWait, opDur, oracle,
          cmdsLeft, opCalls, transients, outcome, gSockfd0, gCurrent0, released,
          intCalls, pollsAfterInt, staleInt, freshInt, sigErrs,
          callTime, returnTime>>

regVars == <<gSockfd, gCurrent>>

sigVars == <<sigioReceived, sigioHandler, asyncFds, ownedFds>>

localVars == <<cmd, newgCurrent, result, done, selDone>>

iterObs == <<lastSel, waitBegun, sigioSeen, preWait, opDur, oracle>>

cmdObs == <<cmdsLeft, opCalls, transients, outcome, gSockfd0, gCurrent0,
            released>>

intObs == <<intCalls, pollsAfterInt, staleInt, freshInt>>

clockVars == <<callTime, returnTime>>

(* ------------------------------- registry ------------------------------- *)

InUse(fds) == {i \in Slots : fds[i] # UNUSED_FD}

Full(fds) == InUse(fds) = Slots

OpenFds == {gSockfd[i] : i \in InUse(gSockfd)}

\* The descriptor the kernel hands out next: the lowest one not open (0, 1, 2
\* are the terminal).
NewFd == CHOOSE f \in 3 .. (3 + MAXSOCKETS) :
            /\ f \notin OpenFds
            /\ \A g \in 3 .. (f - 1) : g \in OpenFds

\* Mutant: the scan runs from the end of the table.
findFreeSocketSlot_Highest ==
    IF \E i \in Slots : gSockfd[i] = UNUSED_FD
    THEN CHOOSE i \in Slots : /\ gSockfd[i] = UNUSED_FD
                              /\ \A j \in (i + 1) .. (MAXSOCKETS - 1) :
                                    gSockfd[j] # UNUSED_FD
    ELSE -1

\* Mutant: the scan gives slot 0 away when nothing is free.
findFreeSocketSlot_Reuse ==
    IF \E i \in Slots : gSockfd[i] = UNUSED_FD
    THEN CHOOSE i \in Slots : /\ gSockfd[i] = UNUSED_FD
                              /\ \A j \in 0 .. (i - 1) : gSockfd[j] # UNUSED_FD
    ELSE 0

\* Mutant: the scan stops one slot short of the end of the table.
findFreeSocketSlot_ShortScan ==
    IF \E i \in 0 .. (MAXSOCKETS - 2) : gSockfd[i] = UNUSED_FD
    THEN CHOOSE i \in 0 .. (MAXSOCKETS - 2) :
            /\ gSockfd[i] = UNUSED_FD
            /\ \A j \in 0 .. (i - 1) : gSockfd[j] # UNUSED_FD
    ELSE -1

findFreeSocketSlot ==
    IF \E i \in Slots : gSockfd[i] = UNUSED_FD
    THEN CHOOSE i \in Slots : /\ gSockfd[i] = UNUSED_FD
                              /\ \A j \in 0 .. (i - 1) : gSockfd[j] # UNUSED_FD
    ELSE -1

\* Mutant: the flag is not set.
setFctlFlag_Skip(flagSet) == flagSet

\* fcntl(F_GETFL) fails on a descriptor that is not open and the flag is left.
setFctlFlag(flagSet) ==
    IF gSockfd[gCurrent] \in OpenFds THEN flagSet \cup {gSockfd[gCurrent]} ELSE flagSet

\* Mutant: the flag is left as it is.
clearFctlFlag_Keep(flagSet) == flagSet

clearFctlFlag(flagSet) ==
    IF gSockfd[gCurrent] \in OpenFds THEN flagSet \ {gSockfd[gCurrent]} ELSE flagSet

(* ---------------------------- blocking oracle ---------------------------- *)

\* The clock moves on by d microseconds.
Elapse(t, d) == IF t + d > BLOCK_THRESHOLD THEN Stale ELSE t + d

\* Mutant: the timestamp is not taken again.
doBlockingSetup_Stale == delta

\* gettimeofday(&callTime): no time has passed since callTime.
doBlockingSetup == 0

\* blocked = delta > BLOCK_THRESHOLD, and the expectation it is compared with.
verifyBlocking(expected) ==
    [blocked |-> delta > BLOCK_THRESHOLD, expected |-> expected, ran |-> TRUE]

\* "Error - API did/did not block."
Mismatch(o) == o.ran /\ o.blocked # o.expected

NoOracle == [blocked |-> FALSE, expected |-> FALSE, ran |-> FALSE]

\* tv_usec values of the clock readings followed: both ends of the range, the
\* value next to the lower end and one in the middle.
UsecSamples == {0, 1, USEC_PER_SEC \div 2, USEC_PER_SEC - 1}

\* struct timeval as gettimeofday() fills it in.
Timevals == [tv_sec : 0 .. MaxSeconds, tv_usec : UsecSamples]

\* delta = (returnTime.tv_sec - callTime.tv_sec) * 1000000
\*             + returnTime.tv_usec - callTime.tv_usec
\* in long arithmetic; with tv_sec up to MaxSeconds no intermediate value
\* leaves the range of a 32-bit long.
timeDelta(ret, call) ==
    ((ret.tv_sec - call.tv_sec) * USEC_PER_SEC + ret.tv_usec) - call.tv_usec

\* Mutant: a delta equal to the threshold counts as a block.
blockedBy_AtThreshold(d) == d >= BLOCK_THRESHOLD

\* blocked = delta > BLOCK_THRESHOLD
blockedBy(d) == d > BLOCK_THRESHOLD

(* ------------------------------ conditions ------------------------------ *)

neededCondition(c) ==
    IF c \in {"sendmsg", "write"} THEN "WRITE_READY" ELSE "READ_READY"

(* -------------------------------- Init -------------------------------- *)

\* The program at its prompt with n more commands to come.  A session starts
\* with an empty registry in the blocking model; the other states are the
\* program after k successful socket commands (slot i then holds descriptor
\* i + 3 and the last one created is current) and a model command choosing m.
\* callTime is zero-initialised, long before any reading of the clock.
Session(k, m, n) ==
    /\ gSockfd = [i \in Slots |-> IF i < k THEN i + 3 ELSE UNUSED_FD]
    /\ gCurrent = IF k = 0 THEN 0 ELSE k - 1
    /\ model = m
    /\ gInterrupted = FALSE
    /\ sigioReceived = FALSE
    /\ shouldBlock = FALSE
    /\ delta = Stale
    /\ errno = "ENONE"
    /\ sigioHandler = "SIG_DFL"
    /\ nonblockFds = {}
    /\ asyncFds = {}
    /\ ownedFds = {}
    /\ pc = "prompt"
    /\ cmd = "none"
    /\ newgCurrent = 0
    /\ result = 0
    /\ done = FALSE
    /\ selDone = FALSE
    /\ lastSel = "none"
    /\ waitBegun = FALSE
    /\ sigioSeen = FALSE
    /\ preWait = 0
    /\ opDur = 0
    /\ oracle = NoOracle
    /\ cmdsLeft = n
    /\ opCalls = 0
    /\ transients = 0
    /\ outcome = "none"
    /\ gSockfd0 = gSockfd
    /\ gCurrent0 = gCurrent
    /\ released = -1
    /\ intCalls = -1
    /\ staleInt = FALSE
    /\ freshInt = FALSE
    /\ pollsAfterInt = 0
    /\ sigErrs = 0
    /\ callTime = [tv_sec |-> 0, tv_usec |-> 0]
    /\ returnTime = [tv_sec |-> 0, tv_usec |-> 0]

\* Sessions for the retry loop: no socket or two, under any model.
Init == \E k \in {0, 2}, m \in Models : Session(k, m, MaxLoopCmds)

\* Sessions from the start of the program's model selection: the blocking
\* model, no socket or two.
StartInit == \E k \in {0, 2} : Session(k, "BLOCKING_MODEL", MaxLoopCmds)

\* Sessions for the registry: any number of sockets, blocking model.
RegistryInit ==
    \E k \in 0 .. MAXSOCKETS : Session(k, "BLOCKING_MODEL", MaxCmds)

(* ------------------------------- main loop ------------------------------- *)

\* Mutant: the flag is not cleared before a command runs.
dispatchInterrupted_Keep == gInterrupted

\* gInterrupted = FALSE, just before the switch that dispatches the command.
dispatchInterrupted == FALSE

\* main(): a command was read and is dispatched; gInterrupted is cleared first.
Dispatch(c) ==
    /\ pc = "prompt"
    /\ cmdsLeft > 0
    /\ cmdsLeft' = cmdsLeft - 1
    /\ gInterrupted' = dispatchInterrupted
    /\ staleInt' = gInterrupted
    /\ freshInt' = FALSE
    /\ cmd' = c
    /\ gSockfd0' = gSockfd
    /\ gCurrent0' = gCurrent
    /\ intCalls' = -1
    /\ pollsAfterInt' = 0
    /\ UNCHANGED <<sigErrs, clockVars>>

\* The handler has returned: main() frees the line and prompts again.  The
\* user takes more than the threshold to type the next line; readline() and
\* printf() leave errno unspecified, here 0.
Return ==
    /\ pc = "ret"
    /\ pc' = "prompt"
    /\ cmd' = "none"
    /\ newgCurrent' = 0
    /\ result' = 0
    /\ done' = FALSE
    /\ selDone' = FALSE
    /\ lastSel' = "none"
    /\ waitBegun' = FALSE
    /\ sigioSeen' = FALSE
    /\ preWait' = 0
    /\ opDur' = 0
    /\ oracle' = NoOracle
    /\ opCalls' = 0
    /\ transients' = 0
    /\ outcome' = "none"
    /\ gSockfd0' = gSockfd
    /\ gCurrent0' = gCurrent
    /\ released' = IF cmd \in {"socket", "accept"} /\ outcome # "usage"
                   THEN -1 ELSE released
    /\ intCalls' = -1
    /\ pollsAfterInt' = 0
    /\ staleInt' = FALSE
    /\ freshInt' = FALSE
    /\ errno' = "ENONE"
    /\ delta' = Stale
    /\ UNCHANGED <<regVars, model, gInterrupted, shouldBlock, sigVars,
                   nonblockFds, cmdsLeft, sigErrs, clockVars>>

(* --------------------------- registry commands --------------------------- *)

\* Mutant: an unrecognised name falls back to the blocking model.
modelOf_Reset(name) ==
    CASE name = "nonblocking" -> "NONBLOCKING_MODEL"
      [] name = "signal" -> "SIGNAL_MODEL"
      [] name = "select" -> "SELECT_MODEL"
      [] OTHER -> "BLOCKING_MODEL"

modelOf(name) ==
    CASE name = "" -> "BLOCKING_MODEL"
      [] name = "blocking" -> "BLOCKING_MODEL"
      [] name = "nonblocking" -> "NONBLOCKING_MODEL"
      [] name = "signal" -> "SIGNAL_MODEL"
      [] name = "select" -> "SELECT_MODEL"
      [] OTHER -> model

doModel(name) ==
    /\ Dispatch("model")
    /\ model' = modelOf(name)
    /\ outcome' = IF name = "bogus" THEN "usage" ELSE "ok"
    /\ pc' = "ret"
    /\ UNCHANGED <<regVars, shouldBlock, delta, errno, sigVars, nonblockFds,
                   newgCurrent, result, done, selDone, iterObs, opCalls, transients,
                   released>>

\* use: the index is not range-checked, so gSockfd[n] with n outside 0..9 reads
\* memory next to the array: either word may or may not equal UNUSED_FD.  When
\* it does not, gCurrent leaves the table and nothing more is defined ("ub").
doUse(parsed, n) ==
    /\ Dispatch("use")
    /\ \/ /\ ~parsed
          /\ outcome' = "usage"
          /\ pc' = "ret"
          /\ UNCHANGED gCurrent
       \/ /\ parsed
          /\ n \in Slots
          /\ gSockfd[n] = UNUSED_FD
          /\ outcome' = "rejected"
          /\ pc' = "ret"
          /\ UNCHANGED gCurrent
       \/ /\ parsed
          /\ n \in Slots
          /\ gSockfd[n] # UNUSED_FD
          /\ gCurrent' = n
          /\ outcome' = "ok"
          /\ pc' = "ret"
       \/ /\ parsed
          /\ n \notin Slots
          /\ \/ /\ outcome' = "rejected"
                /\ pc' = "ret"
                /\ UNCHANGED gCurrent
             \/ /\ gCurrent' = n
                /\ outcome' = "ok"
                /\ pc' = "ub"
    /\ UNCHANGED <<gSockfd, model, shouldBlock, delta, errno, sigVars,
                   nonblockFds, newgCurrent, result, done, selDone, iterObs,
                   opCalls, transients, released>>

\* Mutant: a failed socket() answers another negative value than -1.
socketResult_OtherNegative(apiOk) == IF apiOk THEN NewFd ELSE -2

\* socket(): a new descriptor, or -1 with errno set.
socketResult(apiOk) == IF apiOk THEN NewFd ELSE -1

doSocket(argsOk, apiOk) ==
    /\ Dispatch("socket")
    /\ pc' = "ret"
    /\ \/ /\ ~argsOk
          /\ outcome' = "usage"
          /\ UNCHANGED <<regVars, newgCurrent, result, opCalls, errno>>
       \/ /\ argsOk
          /\ findFreeSocketSlot < 0
          /\ newgCurrent' = findFreeSocketSlot
          /\ outcome' = "refused"
          /\ UNCHANGED <<regVars, result, opCalls, errno>>
       \/ /\ argsOk
          /\ findFreeSocketSlot >= 0
          /\ newgCurrent' = findFreeSocketSlot
          /\ gCurrent' = findFreeSocketSlot
          /\ opCalls' = opCalls + 1
          /\ result' = socketResult(apiOk)
          /\ errno' = IF apiOk THEN errno ELSE "EOTHER"
          /\ gSockfd' = [gSockfd EXCEPT ![findFreeSocketSlot] = result']
          /\ outcome' = IF apiOk THEN "ok" ELSE "error"
    /\ UNCHANGED <<model, shouldBlock, delta, sigVars, nonblockFds, done,
                   selDone, iterObs, transients, released>>

\* close(): fails with EBADF on fd -1; on an open descriptor it can succeed or
\* fail (EINTR, EIO), and a failure returns before the slot is touched.
doClose(apiOk) ==
    /\ Dispatch("close")
    /\ pc' = "ret"
    /\ opCalls' = opCalls + 1
    /\ IF gSockfd[gCurrent] # UNUSED_FD /\ apiOk
       THEN /\ result' = 0
            /\ gSockfd' = [gSockfd EXCEPT ![gCurrent] = UNUSED_FD]
            /\ nonblockFds' = nonblockFds \ {gSockfd[gCurrent]}
            /\ asyncFds' = asyncFds \ {gSockfd[gCurrent]}
            /\ ownedFds' = ownedFds \ {gSockfd[gCurrent]}
            /\ released' = IF Full(gSockfd) THEN gCurrent ELSE -1
            /\ outcome' = "ok"
            /\ UNCHANGED errno
       ELSE /\ result' = -1
            /\ errno' = IF gSockfd[gCurrent] = UNUSED_FD THEN "EBADF" ELSE "EOTHER"
            /\ outcome' = "error"
            /\ UNCHANGED <<gSockfd, nonblockFds, asyncFds, ownedFds, released>>
    /\ UNCHANGED <<gCurrent, model, shouldBlock, delta, sigioReceived,
                   sigioHandler, newgCurrent, done, selDone, iterObs, transients>>

(* ------------------------ readiness-sensitive commands ------------------------ *)

\* Mutant: accept makes the slot it found current before the call, as doSocket
\* does.
acceptSelection_Early(slot) == slot

\* doAccept leaves gCurrent alone until accept() has succeeded.
acceptSelection(slot) == gCurrent

\* doConnect .. doWrite up to the first preAPISetup().  connect returns early on
\* a bad argument list; accept first needs a free slot.
doLoopCmd(c, argsOk) ==
    /\ Dispatch(c)
    /\ \/ /\ c = "connect"
          /\ ~argsOk
          /\ outcome' = "usage"
          /\ pc' = "ret"
          /\ UNCHANGED <<gCurrent, newgCurrent>>
       \/ /\ c = "accept"
          /\ findFreeSocketSlot < 0
          /\ newgCurrent' = findFreeSocketSlot
          /\ outcome' = "refused"
          /\ pc' = "ret"
          /\ UNCHANGED gCurrent
       \/ /\ c = "accept"
          /\ findFreeSocketSlot >= 0
          /\ newgCurrent' = findFreeSocketSlot
          /\ gCurrent' = acceptSelection(findFreeSocketSlot)
          /\ pc' = "pre"
          /\ UNCHANGED outcome
       \/ /\ c # "accept"
          /\ argsOk
          /\ pc' = "pre"
          /\ UNCHANGED <<gCurrent, newgCurrent, outcome>>
    /\ UNCHANGED <<gSockfd, model, shouldBlock, delta, errno, sigVars,
                   nonblockFds, result, done, selDone, iterObs, opCalls, transients,
                   released>>

\* What every pre-call phase leaves alone, and the observations of the
\* iteration it begins.
PreFrame ==
    /\ lastSel' = "none"
    /\ waitBegun' = FALSE
    /\ sigioSeen' = FALSE
    /\ preWait' = 0
    /\ opDur' = 0
    /\ oracle' = NoOracle
    /\ UNCHANGED <<regVars, model, gInterrupted, errno, cmd, newgCurrent, result,
                   done, cmdObs, intObs, sigErrs, clockVars>>

\* Mutant: every condition is taken to block.
blockingExpectation_Always(c) == TRUE

\* Mutant: no condition is taken to block.
blockingExpectation_Never(c) == FALSE

\* shouldBlock = neededCondition != WRITE_READY
blockingExpectation(c) == c # "WRITE_READY"

blockingPreAPISetup ==
    /\ pc = "pre"
    /\ model = "BLOCKING_MODEL"
    /\ shouldBlock' = blockingExpectation(neededCondition(cmd))
    /\ delta' = doBlockingSetup
    /\ pc' = "check"
    /\ PreFrame
    /\ UNCHANGED <<sigVars, nonblockFds, selDone>>

nonblockingPreAPISetup ==
    /\ pc = "pre"
    /\ model = "NONBLOCKING_MODEL"
    /\ delta' = doBlockingSetup
    /\ nonblockFds' = setFctlFlag(nonblockFds)
    /\ pc' = "check"
    /\ PreFrame
    /\ UNCHANGED <<sigVars, shouldBlock, selDone>>

(* select model *)

selectPreAPISetup ==
    /\ pc = "pre"
    /\ model = "SELECT_MODEL"
    /\ selDone' = FALSE
    /\ pc' = "sel_call"
    /\ PreFrame
    /\ UNCHANGED <<sigVars, shouldBlock, delta, nonblockFds>>

\* What select() can answer: 0 after the one-second timeout ("timeout"), 1 with
\* the watched bit set ("ready"), 1 with the bit clear ("notset"), anything
\* else ("error").
SelectResults == {"timeout", "ready", "notset", "error"}

\* done after one select(): set on every return of 1, bit or no bit.
selectDone(r, d) == IF r \in {"ready", "notset"} THEN TRUE ELSE d

\* One pass of the do-loop body: the select() call and the check of its output.
selectCall(r) ==
    /\ pc = "sel_call"
    /\ r \in SelectResults
    /\ delta' = IF r = "timeout" THEN Elapse(delta, POLL_INTERVAL) ELSE delta
    /\ preWait' = IF r = "timeout" THEN Elapse(preWait, POLL_INTERVAL) ELSE preWait
    /\ errno' = IF r = "error" THEN "EOTHER" ELSE errno
    /\ selDone' = selectDone(r, selDone)
    /\ lastSel' = r
    /\ pollsAfterInt' = IF gInterrupted /\ pollsAfterInt < 2
                        THEN pollsAfterInt + 1 ELSE pollsAfterInt
    /\ pc' = "sel_test"
    /\ UNCHANGED <<regVars, model, gInterrupted, shouldBlock, sigVars,
                   nonblockFds, cmd, newgCurrent, result, done, waitBegun, sigioSeen, opDur,
                   oracle, cmdObs, intCalls, staleInt, freshInt, sigErrs, clockVars>>

\* while (!done && !gInterrupted)
selectAgain == ~selDone /\ ~gInterrupted

selectTest ==
    /\ pc = "sel_test"
    /\ IF selectAgain
       THEN /\ pc' = "sel_call"
            /\ UNCHANGED delta
       ELSE /\ delta' = doBlockingSetup
            /\ pc' = "check"
    /\ UNCHANGED <<regVars, model, gInterrupted, shouldBlock, errno, sigVars,
                   nonblockFds, localVars, iterObs, cmdObs, intObs, sigErrs, clockVars>>

(* signal model *)

\* Mutant: the write-ready shortcut is missing.
signalPreIsImmediate_Never(c) == FALSE

\* if (neededCondition == WRITE_READY) { doBlockingSetup(); return; }
signalPreIsImmediate(c) == c = "WRITE_READY"

signalPreAPISetup ==
    /\ pc = "pre"
    /\ model = "SIGNAL_MODEL"
    /\ IF signalPreIsImmediate(neededCondition(cmd))
       THEN /\ delta' = doBlockingSetup
            /\ pc' = "check"
       ELSE /\ pc' = "sig_install"
            /\ UNCHANGED delta
    /\ PreFrame
    /\ UNCHANGED <<sigVars, shouldBlock, nonblockFds, selDone>>

SigFrame ==
    UNCHANGED <<regVars, model, gInterrupted, shouldBlock, nonblockFds,
                localVars, lastSel, opDur, oracle, cmdObs, intCalls, staleInt,
                freshInt, clockVars>>

\* signal(SIGIO, activeSIGIOHandler); SIG_ERR returns from the pre-call phase.
signalInstall(apiOk) ==
    /\ pc = "sig_install"
    /\ IF apiOk
       THEN /\ sigioHandler' = "activeSIGIOHandler"
            /\ pc' = "sig_setown"
            /\ UNCHANGED <<errno, sigErrs>>
       ELSE /\ sigErrs < MaxSigErr
            /\ sigErrs' = sigErrs + 1
            /\ errno' = "EOTHER"
            /\ pc' = "check"
            /\ UNCHANGED sigioHandler
    /\ SigFrame
    /\ UNCHANGED <<sigioReceived, delta, asyncFds, ownedFds, waitBegun, sigioSeen, preWait,
                   pollsAfterInt>>

\* fcntl(F_SETOWN, getpid()): fails on a descriptor that is not open, and the
\* failure returns from the pre-call phase.
signalSetown ==
    /\ pc = "sig_setown"
    /\ IF gSockfd[gCurrent] \in OpenFds
       THEN /\ ownedFds' = ownedFds \cup {gSockfd[gCurrent]}
            /\ pc' = "sig_clear"
            /\ UNCHANGED errno
       ELSE /\ errno' = "EBADF"
            /\ pc' = "check"
            /\ UNCHANGED ownedFds
    /\ SigFrame
    /\ UNCHANGED <<sigioReceived, delta, sigioHandler, asyncFds, waitBegun, sigioSeen,
                   preWait, pollsAfterInt, sigErrs>>

\* sigioReceived = FALSE
signalClear ==
    /\ pc = "sig_clear"
    /\ sigioReceived' = FALSE
    /\ waitBegun' = TRUE
    /\ UNCHANGED sigioSeen
    /\ pc' = "sig_async"
    /\ SigFrame
    /\ UNCHANGED <<delta, errno, sigioHandler, asyncFds, ownedFds, preWait,
                   pollsAfterInt, sigErrs>>

\* setFctlFlag(O_ASYNC)
signalAsync ==
    /\ pc = "sig_async"
    /\ asyncFds' = setFctlFlag(asyncFds)
    /\ pc' = "sig_wait"
    /\ SigFrame
    /\ UNCHANGED <<sigioReceived, delta, errno, sigioHandler, ownedFds,
                   waitBegun, sigioSeen, preWait, pollsAfterInt, sigErrs>>

\* while (!sigioReceived && !gInterrupted)
signalAgain == ~sigioReceived /\ ~gInterrupted

signalTest ==
    /\ pc = "sig_wait"
    /\ IF signalAgain
       THEN /\ pc' = "sig_sleep"
            /\ UNCHANGED delta
       ELSE /\ delta' = doBlockingSetup
            /\ pc' = "check"
    /\ SigFrame
    /\ UNCHANGED <<sigVars, errno, waitBegun, sigioSeen, preWait, pollsAfterInt, sigErrs>>

\* sleep(1)
signalSleep ==
    /\ pc = "sig_sleep"
    /\ delta' = Elapse(delta, POLL_INTERVAL)
    /\ preWait' = Elapse(preWait, POLL_INTERVAL)
    /\ pollsAfterInt' = IF gInterrupted /\ pollsAfterInt < 2
                        THEN pollsAfterInt + 1 ELSE pollsAfterInt
    /\ pc' = "sig_wait"
    /\ SigFrame
    /\ UNCHANGED <<sigVars, errno, waitBegun, sigioSeen, sigErrs>>

(* the rest of the retry loop *)

\* Mutant: the loop goes on to the operation whatever the flag says.
interruptedAfterPre_Deaf == FALSE

\* if (gInterrupted) return;
interruptedAfterPre == gInterrupted

loopCheck ==
    /\ pc = "check"
    /\ IF interruptedAfterPre
       THEN /\ outcome' = "interrupted"
            /\ pc' = "ret"
       ELSE /\ pc' = "call"
            /\ UNCHANGED outcome
    /\ UNCHANGED <<regVars, model, gInterrupted, shouldBlock, delta, errno,
                   sigVars, nonblockFds, localVars, iterObs, cmdsLeft, opCalls,
                   sigErrs, clockVars,
                   transients, gSockfd0, gCurrent0, released, intObs>>

\* What a successful call of the command's operation returns.
SuccessResults(c) ==
    CASE c = "accept" -> {NewFd}
      [] c = "connect" -> {0}
      [] OTHER -> {0, BUFFER_SIZE}

\* The transient errors a call can answer: none unless O_NONBLOCK is set on
\* the descriptor; EINPROGRESS and EALREADY are connect's.
TransientOf(c) ==
    IF gSockfd[gCurrent] \notin nonblockFds THEN {}
    ELSE IF c = "connect" THEN TransientErrnos ELSE {"EWOULDBLOCK"}

\* The socket call itself: connect/accept/recvmsg/sendmsg/read/write on
\* gSockfd[gCurrent].  e is "ok" or the errno of the failure, d the time the call
\* takes; a call on fd -1 fails at once with EBADF.
opCall(e, r, d) ==
    /\ pc = "call"
    /\ opCalls < MaxCalls
    /\ IF gSockfd[gCurrent] \notin OpenFds
       THEN e = "EBADF" /\ d = 0
       ELSE e \in {"ok", "EOTHER"} \cup TransientOf(cmd)
    /\ IF e = "ok" THEN r \in SuccessResults(cmd) ELSE r = -1
    /\ result' = r
    /\ errno' = IF e = "ok" THEN errno ELSE e
    /\ delta' = Elapse(delta, d)
    /\ opDur' = d
    /\ opCalls' = opCalls + 1
    /\ staleInt' = FALSE
    /\ transients' = IF e \in TransientErrnos THEN transients + 1 ELSE transients
    /\ pc' = "post"
    /\ UNCHANGED <<regVars, model, gInterrupted, shouldBlock, sigVars,
                   nonblockFds, cmd, newgCurrent, done, selDone, lastSel,
                   waitBegun, sigioSeen, preWait, oracle, cmdsLeft, sigErrs, clockVars, outcome, gSockfd0,
                   gCurrent0, released, intCalls, pollsAfterInt, freshInt>>

\* Mutant: with gInterrupted set the post-call phase asks for another turn, in
\* which the loop returns on the flag.
postAPISetup_AgainOnInterrupt(o, answer) == answer /\ ~gInterrupted

\* Mutant: a mismatch makes the post-call phase ask for another turn.
postAPISetup_RetryOnMismatch(o, answer) == answer /\ ~Mismatch(o)

\* postAPISetup() returns what the model's post-call phase answers; what
\* verifyBlocking() found (it returns void) is not part of it.
postAPISetup(o, answer) == answer

PostFrame ==
    /\ pc' = "after"
    /\ UNCHANGED <<regVars, model, gInterrupted, shouldBlock, delta, errno,
                   sigioReceived, ownedFds, cmd, newgCurrent, result, selDone,
                   lastSel, waitBegun, sigioSeen, preWait, opDur, cmdObs, intObs, clockVars>>

blockingPostAPISetup ==
    /\ pc = "post"
    /\ model = "BLOCKING_MODEL"
    /\ oracle' = verifyBlocking(shouldBlock /\ result >= 0)
    /\ done' = postAPISetup(oracle', TRUE)
    /\ PostFrame
    /\ UNCHANGED <<sigioHandler, nonblockFds, asyncFds, sigErrs>>

\* Mutant: a result of 0 does not end the loop.
nonblockingDone_Positive(apiResult, err) ==
    apiResult > 0 \/ err \notin {"EWOULDBLOCK", "EINPROGRESS", "EALREADY"}

\* Mutant: EALREADY is not taken as transient.
nonblockingDone_NoAlready(apiResult, err) ==
    apiResult >= 0 \/ err \notin {"EWOULDBLOCK", "EINPROGRESS"}

\* done = apiResult >= 0 || (err != EWOULDBLOCK && err != EINPROGRESS && err != EALREADY)
nonblockingDone(apiResult, err) ==
    apiResult >= 0 \/ err \notin {"EWOULDBLOCK", "EINPROGRESS", "EALREADY"}

nonblockingPostAPISetup ==
    /\ pc = "post"
    /\ model = "NONBLOCKING_MODEL"
    /\ oracle' = verifyBlocking(FALSE)
    /\ nonblockFds' = clearFctlFlag(nonblockFds)
    /\ done' = postAPISetup(oracle', nonblockingDone(result, errno))
    /\ PostFrame
    /\ UNCHANGED <<sigioHandler, asyncFds, sigErrs>>

selectPostAPISetup ==
    /\ pc = "post"
    /\ model = "SELECT_MODEL"
    /\ oracle' = verifyBlocking(FALSE)
    /\ done' = postAPISetup(oracle', TRUE)
    /\ PostFrame
    /\ UNCHANGED <<sigioHandler, nonblockFds, asyncFds, sigErrs>>

\* signal(SIGIO, defaultSIGIOHandler) answering SIG_ERR runs "return;" in a
\* function returning int: the caller reads an indeterminate done.
signalPostAPISetup(apiOk, garbage) ==
    /\ pc = "post"
    /\ model = "SIGNAL_MODEL"
    /\ oracle' = verifyBlocking(FALSE)
    /\ IF apiOk
       THEN /\ sigioHandler' = "defaultSIGIOHandler"
            /\ asyncFds' = clearFctlFlag(asyncFds)
            /\ done' = postAPISetup(oracle', TRUE)
            /\ UNCHANGED sigErrs
       ELSE /\ sigErrs < MaxSigErr
            /\ sigErrs' = sigErrs + 1
            /\ done' = garbage
            /\ UNCHANGED <<sigioHandler, asyncFds>>
    /\ PostFrame
    /\ UNCHANGED nonblockFds

\* while (!done): another turn, after the sleep(1) that ends the non-blocking
\* post-call phase.
loopRetry ==
    /\ pc = "after"
    /\ ~done
    /\ IF model = "NONBLOCKING_MODEL"
       THEN /\ delta' = Elapse(delta, POLL_INTERVAL)
            /\ pollsAfterInt' = IF gInterrupted /\ pollsAfterInt < 2
                                THEN pollsAfterInt + 1 ELSE pollsAfterInt
       ELSE UNCHANGED <<delta, pollsAfterInt>>
    /\ pc' = "pre"
    /\ UNCHANGED <<regVars, model, gInterrupted, shouldBlock, errno, sigVars,
                   nonblockFds, localVars, iterObs, cmdObs, intCalls, staleInt,
                   freshInt, sigErrs, clockVars>>

\* The loop has ended: a negative result is reported and the handler returns;
\* accept binds the new descriptor and makes it current.
loopFinish ==
    /\ pc = "after"
    /\ done
    /\ IF result < 0
       THEN /\ outcome' = "error"
            /\ UNCHANGED regVars
       ELSE /\ outcome' = "ok"
            /\ IF cmd = "accept"
               THEN /\ gSockfd' = [gSockfd EXCEPT ![newgCurrent] = result]
                    /\ gCurrent' = newgCurrent
               ELSE UNCHANGED regVars
    /\ pc' = "ret"
    /\ UNCHANGED <<model, gInterrupted, shouldBlock, delta, errno, sigVars,
                   nonblockFds, localVars, iterObs, cmdsLeft, sigErrs, clockVars, opCalls,
                   transients,
                   gSockfd0, gCurrent0, released, intObs>>

(* ------------------------------ signal handlers ------------------------------ *)

\* Where a command is suspended in a wait: the select polling loop, the
\* signal-driven sleep-and-check loop, the pause of the non-blocking model.
InWait ==
    \/ pc \in {"sel_call", "sel_test", "sig_wait", "sig_sleep"}
    \/ pc = "after" /\ ~done /\ model = "NONBLOCKING_MODEL"

\* interruptSignalHandler / pipeSignalHandler
interruptSignalHandler ==
    /\ pc \notin {"ret", "ub"}
    /\ ~gInterrupted
    /\ gInterrupted' = TRUE
    /\ intCalls' = IF InWait THEN opCalls ELSE -1
    /\ freshInt' = (pc # "prompt")
    /\ UNCHANGED staleInt
    /\ pollsAfterInt' = 0
    /\ UNCHANGED <<regVars, model, shouldBlock, delta, errno, sigVars,
                   nonblockFds, pc, localVars, iterObs, cmdObs, sigErrs, clockVars>>

\* The positions of signalPreAPISetup at which the handler it installed is in
\* place: from fcntl(F_SETOWN) to the end of the wait loop.
SignalInstalledPcs == {"sig_setown", "sig_clear", "sig_async", "sig_wait", "sig_sleep"}

\* SIGIO is raised for a descriptor with O_ASYNC set and this process as owner.
\* Raised again while sigioReceived is still set it changes nothing, except
\* for the first one after signalPreAPISetup has installed the handler.
activeSIGIOHandler ==
    /\ pc \notin {"ret", "ub"}
    /\ (asyncFds \cap ownedFds) # {}
    /\ sigioHandler = "activeSIGIOHandler"
    /\ ~sigioReceived \/ (pc \in SignalInstalledPcs /\ ~sigioSeen)
    /\ sigioReceived' = TRUE
    /\ sigioSeen' = (sigioSeen \/ pc \in SignalInstalledPcs)
    /\ UNCHANGED <<regVars, model, gInterrupted, shouldBlock, delta, errno,
                   sigioHandler, asyncFds, ownedFds, nonblockFds, pc, localVars,
                   lastSel, waitBegun, preWait, opDur, oracle, cmdObs, intObs,
                   sigErrs, clockVars>>

(* ---------------------------- the specification ---------------------------- *)

Next ==
    \/ \E name \in ModelNames : doModel(name)
    \/ \E parsed \in BOOLEAN, n \in -1 .. MAXSOCKETS : doUse(parsed, n)
    \/ \E argsOk \in BOOLEAN, apiOk \in BOOLEAN : doSocket(argsOk, apiOk)
    \/ \E apiOk \in BOOLEAN : doClose(apiOk)
    \/ \E c \in LoopCmds, argsOk \in BOOLEAN : doLoopCmd(c, argsOk)
    \/ blockingPreAPISetup
    \/ nonblockingPreAPISetup
    \/ selectPreAPISetup
    \/ \E r \in SelectResults : selectCall(r)
    \/ selectTest
    \/ signalPreAPISetup
    \/ \E apiOk \in BOOLEAN : signalInstall(apiOk)
    \/ signalSetown
    \/ signalClear
    \/ signalAsync
    \/ signalTest
    \/ signalSleep
    \/ loopCheck
    \/ \E e \in {"ok", "EBADF", "EOTHER"} \cup TransientErrnos,
          r \in {-1, 0, BUFFER_SIZE} \cup (3 .. (3 + MAXSOCKETS)),
          d \in OpDurations : opCall(e, r, d)
    \/ blockingPostAPISetup
    \/ nonblockingPostAPISetup
    \/ selectPostAPISetup
    \/ \E apiOk \in BOOLEAN, garbage \in BOOLEAN : signalPostAPISetup(apiOk, garbage)
    \/ loopRetry
    \/ loopFinish
    \/ Return
    \/ interruptSignalHandler
    \/ activeSIGIOHandler

Spec == Init /\ [][Next]_vars

StartSpec == StartInit /\ [][Next]_vars

\* The commands that touch the registry, and accept and connect in the
\* blocking model.
RegistryNext ==
    \/ \E parsed \in BOOLEAN, n \in -1 .. MAXSOCKETS : doUse(parsed, n)
    \/ \E argsOk \in BOOLEAN, apiOk \in BOOLEAN : doSocket(argsOk, apiOk)
    \/ \E apiOk \in BOOLEAN : doClose(apiOk)
    \/ \E c \in {"accept", "connect"}, argsOk \in BOOLEAN : doLoopCmd(c, argsOk)
    \/ blockingPreAPISetup
    \/ loopCheck
    \/ \E e \in {"ok", "EBADF", "EOTHER"},
          r \in {-1, 0} \cup (3 .. (3 + MAXSOCKETS)),
          d \in OpDurations : opCall(e, r, d)
    \/ blockingPostAPISetup
    \/ loopFinish
    \/ Return
    \/ interruptSignalHandler

RegistrySpec == RegistryInit /\ [][RegistryNext]_vars

(* ----------------------------- oracle sessions ----------------------------- *)

\* The blocking oracle on its own: doBlockingSetup() and verifyBlocking() with
\* the clock answering any reading (the wall clock may also be set back).

OracleFrame ==
    UNCHANGED <<regVars, model, gInterrupted, shouldBlock, errno, sigVars,
                nonblockFds, localVars, lastSel, waitBegun, sigioSeen, preWait, opDur,
                cmdObs, intObs, sigErrs>>

OracleInit == Session(0, "BLOCKING_MODEL", 0)

\* doBlockingSetup(): gettimeofday(&callTime, NULL) answers t.
doBlockingSetupAt(t) ==
    /\ pc \in {"prompt", "classified"}
    /\ callTime' = t
    /\ delta' = doBlockingSetup
    /\ oracle' = NoOracle
    /\ pc' = "stamped"
    /\ OracleFrame
    /\ UNCHANGED returnTime

\* verifyBlocking(expected): gettimeofday(&returnTime, NULL) answers t.
verifyBlockingAt(t, expected) ==
    /\ pc = "stamped"
    /\ returnTime' = t
    /\ delta' = timeDelta(t, callTime)
    /\ oracle' = [blocked |-> blockedBy(delta'), expected |-> expected,
                  ran |-> TRUE]
    /\ pc' = "classified"
    /\ OracleFrame
    /\ UNCHANGED callTime

OracleNext ==
    \/ \E t \in Timevals : doBlockingSetupAt(t)
    \/ \E t \in Timevals, expected \in BOOLEAN : verifyBlockingAt(t, expected)

OracleSpec == OracleInit /\ [][OracleNext]_vars

(* -------------------------------- properties -------------------------------- *)

NonBlocking == model = "NONBLOCKING_MODEL"

\* The last result of the operation is a transient failure.
TransientResult == result < 0 /\ errno \in TransientErrnos

\* C1: under the non-blocking model the post-call phase answers "again"
\* (done = FALSE) exactly when the result is negative and errno is one of
\* EWOULDBLOCK, EINPROGRESS, EALREADY; so the loop goes round again only after
\* transient results, and a success or any other failure is the last call of
\* the command.
C1_NonblockingDone ==
    NonBlocking =>
        /\ pc = "after" => (done <=> ~TransientResult)
        /\ pc \in {"pre", "check", "call"} => opCalls = transients
        /\ opCalls - transients <= 1

\* C1 witness: after two transient results a success ends the loop although
\* errno still holds the transient code.
C1_Witness ==
    /\ NonBlocking
    /\ pc = "after"
    /\ transients = 2
    /\ opCalls = 3
    /\ result >= 0
    /\ errno \in TransientErrnos
    /\ done

\* C2: under the non-blocking model with no interrupt, a command whose
\* operation answers a transient failure n times and then succeeds calls it
\* exactly n + 1 times: a success ends the loop at once, a transient failure
\* never does, and the command returns the successful result.
C2_RetryCount ==
    (NonBlocking /\ cmd \in LoopCmds /\ ~gInterrupted) =>
        /\ (pc = "after" /\ result >= 0) => (done /\ opCalls = transients + 1)
        /\ (pc = "after" /\ TransientResult) => (~done /\ opCalls = transients)
        /\ (pc = "ret" /\ opCalls > 0) =>
              /\ outcome = (IF result >= 0 THEN "ok" ELSE "error")
              /\ result >= 0 => opCalls = transients + 1

\* C2 witness: recvmsg answered EWOULDBLOCK three times and then data; the
\* command returns after four calls.
C2_Witness ==
    /\ NonBlocking
    /\ ~gInterrupted
    /\ cmd = "recvmsg"
    /\ pc = "ret"
    /\ transients = 3
    /\ opCalls = 4
    /\ result = BUFFER_SIZE
    /\ outcome = "ok"

\* C3: under the select model the operation is invoked in an iteration only
\* after the select() of that iteration's pre-call phase reported the watched
\* bit set on the current socket, whatever select() returns.
C3_SelectBeforeCall ==
    (model = "SELECT_MODEL" /\ pc = "post") => lastSel = "ready"

SignalWriteReady ==
    model = "SIGNAL_MODEL" /\ cmd \in LoopCmds /\ neededCondition(cmd) = "WRITE_READY"

SignalWaitPcs ==
    {"sig_install", "sig_setown", "sig_clear", "sig_async", "sig_wait", "sig_sleep"}

\* C4: under the signal model a write-ready operation (write, sendmsg) never
\* installs activeSIGIOHandler, never claims ownership (F_SETOWN) or sets
\* O_ASYNC, and never enters the wait on sigioReceived; its pre-call phase
\* only takes the timestamp.
C4_WriteReadySignal ==
    [][SignalWriteReady =>
          /\ pc' \notin SignalWaitPcs
          /\ sigioHandler' = "activeSIGIOHandler" => sigioHandler = "activeSIGIOHandler"
          /\ ownedFds' \subseteq ownedFds
          /\ asyncFds' \subseteq asyncFds
          /\ (pc = "pre" /\ pc' # "pre") =>
                /\ pc' = "check"
                /\ delta' = 0
                /\ UNCHANGED <<regVars, sigVars, nonblockFds, gInterrupted>>]_vars

\* C4 witness: write under the signal model has reached its call on an open
\* socket with the default disposition of SIGIO untouched.
C4_Witness ==
    /\ SignalWriteReady
    /\ cmd = "write"
    /\ pc = "call"
    /\ gSockfd[gCurrent] \in OpenFds
    /\ sigioHandler = "SIG_DFL"
    /\ ownedFds = {}
    /\ asyncFds = {}
    /\ ~waitBegun
    /\ delta = 0

SignalReadReady ==
    model = "SIGNAL_MODEL" /\ cmd \in LoopCmds /\ neededCondition(cmd) = "READ_READY"

\* C5: under the signal model a read-ready operation is invoked only after
\* activeSIGIOHandler has set sigioReceived since the wait of that iteration
\* began, on every path through the pre-call phase, the ones where signal()
\* or fcntl(F_SETOWN) fails included.
C5_SignalBeforeCall ==
    (SignalReadReady /\ pc = "post") => (waitBegun /\ sigioReceived)

Allocating == cmd \in {"socket", "accept"} /\ pc # "prompt"

\* C6: when all ten slots are in use, socket and accept are refused: the
\* command returns without calling socket() or accept(), no slot changes and
\* the current selection stays.
C6_FullRefused ==
    (Allocating /\ Full(gSockfd0)) =>
        /\ pc = "ret"
        /\ outcome \in {"refused", "usage"}
        /\ opCalls = 0
        /\ gSockfd = gSockfd0
        /\ gCurrent = gCurrent0

\* C6 witness: accept was refused on a full registry.
C6_Witness ==
    /\ cmd = "accept"
    /\ pc = "ret"
    /\ Full(gSockfd0)
    /\ outcome = "refused"

\* C7: after a close released the current slot of a full registry, the next
\* allocation (socket or accept) is not refused: it takes the released slot,
\* and the descriptor that socket() or accept() returns is stored there and
\* made current, the other slots staying as they were.
C7_ReleasedSlotReused ==
    (Allocating /\ released >= 0 /\ pc = "ret" /\ outcome # "usage") =>
        /\ outcome # "refused"
        /\ newgCurrent = released
        /\ outcome = "ok" =>
              /\ result >= 0
              /\ gSockfd = [gSockfd0 EXCEPT ![released] = result]
              /\ gCurrent = released

\* C7 witness: slot 4 of a full registry was selected and closed, and the
\* socket command that follows has put its new descriptor there.
C7_Witness ==
    /\ cmd = "socket"
    /\ pc = "ret"
    /\ released = 4
    /\ outcome = "ok"
    /\ gSockfd[4] = result
    /\ Full(gSockfd)

\* C8: when gInterrupted is set while the command is suspended in a wait (the
\* select polling loop, the signal model's sleep-and-check loop, the pause of
\* the non-blocking model), at most one more polling interval passes and the
\* operation is not invoked again before the command returns.
C8_InterruptEndsWait ==
    intCalls >= 0 =>
        /\ gInterrupted
        /\ pollsAfterInt <= 1
        /\ opCalls = intCalls
        /\ pc \notin {"call", "post", "after"} \/ (pc = "after" /\ ~done)
        /\ pc = "ret" => outcome = "interrupted"

\* C8 witness: a select-model command was interrupted in its polling loop and
\* has returned one select() timeout later, the operation never called.
C8_Witness ==
    /\ model = "SELECT_MODEL"
    /\ intCalls = 0
    /\ pollsAfterInt = 1
    /\ lastSel = "timeout"
    /\ opCalls = 0
    /\ pc = "ret"
    /\ outcome = "interrupted"

\* A read-ready operation under the blocking model has returned success
\* within the threshold and the post-call phase has classified it.
QuickReadReadySuccess ==
    /\ model = "BLOCKING_MODEL"
    /\ cmd \in LoopCmds
    /\ neededCondition(cmd) = "READ_READY"
    /\ pc = "after"
    /\ result >= 0
    /\ opDur <= BLOCK_THRESHOLD

\* C9 as stated: under the blocking model a read-ready operation (connect,
\* say) that returns success within the threshold is classified as not having
\* blocked and no mismatch with the expectation is reported.
C9_QuickSuccessNoMismatch ==
    QuickReadReadySuccess => (~oracle.blocked /\ ~Mismatch(oracle))

\* C9 amended: under the blocking model a read-ready operation that returns
\* success within the threshold is classified as not having blocked, and the
\* mismatch "Error - API did not block." is reported, the expectation being
\* that every successful read-ready call blocks.
C9_QuickSuccessMismatch ==
    QuickReadReadySuccess =>
        /\ oracle.ran
        /\ ~oracle.blocked
        /\ oracle.expected
        /\ Mismatch(oracle)

\* C9 witness: connect returned 0 at once and has been classified.
C9_Witness ==
    /\ QuickReadReadySuccess
    /\ cmd = "connect"
    /\ opDur = 0
    /\ result = 0
    /\ oracle.ran

\* The post-call phase has classified a call that itself took no more than
\* the threshold.
QuickCallClassified ==
    /\ cmd \in LoopCmds
    /\ pc = "after"
    /\ opDur <= BLOCK_THRESHOLD

\* C10: in each of the four models a write-ready operation whose own call
\* returns within the threshold is classified as not having blocked; and the
\* time a pre-call phase spent waiting (select timeouts, sleeps of the signal
\* wait) is not part of the elapsed time that is classified.
C10_WriteReadyDidNotBlock ==
    /\ (QuickCallClassified /\ neededCondition(cmd) = "WRITE_READY") =>
          (oracle.ran /\ ~oracle.blocked)
    /\ (QuickCallClassified /\ preWait > 0) =>
          (oracle.ran /\ ~oracle.blocked)

\* C10 witness: write under the select model waited through two select()
\* timeouts, the call itself took exactly the threshold, and it is classified
\* as not having blocked.
C10_Witness ==
    /\ QuickCallClassified
    /\ model = "SELECT_MODEL"
    /\ cmd = "write"
    /\ preWait > BLOCK_THRESHOLD
    /\ opDur = BLOCK_THRESHOLD
    /\ result = BUFFER_SIZE
    /\ ~oracle.blocked

\* C11: whenever the program is at its prompt and at least one slot is in use,
\* gCurrent refers to a slot that is in use.
C11_CurrentInUse ==
    (pc = "prompt" /\ InUse(gSockfd) # {}) => gCurrent \in InUse(gSockfd)

\* C12: the use command moves gCurrent only to an index inside the table that
\* names a slot in use; an index out of range (negative or >= MAXSOCKETS) or
\* naming an unused slot is rejected and gCurrent stays.
C12_UseChecked ==
    (cmd = "use" /\ pc \in {"ret", "ub"}) =>
        /\ gSockfd = gSockfd0
        /\ \/ gCurrent = gCurrent0 /\ outcome \in {"usage", "rejected", "ok"}
           \/ /\ gCurrent \in Slots
              /\ gSockfd0[gCurrent] # UNUSED_FD
              /\ outcome = "ok"

\* C13: after the close command the current slot is unused, whether close()
\* succeeded or failed.
C13_CloseAlwaysReleases ==
    (cmd = "close" /\ pc = "ret") => gSockfd[gCurrent] = UNUSED_FD

\* C14: an iteration of the retry loop that starts with gInterrupted set
\* returns without running the pre-call phase (no descriptor flag, SIGIO
\* disposition or owner changes), and the flag is tested again between the
\* pre-call phase and the operation.
C14_InterruptBeforePre ==
    [][/\ (pc = "pre" /\ gInterrupted /\ pc' # "pre") =>
             /\ pc' = "ret"
             /\ UNCHANGED <<nonblockFds, sigioHandler, asyncFds, ownedFds>>
       /\ (pc # "call" /\ pc' = "call") => ~gInterrupted]_vars

\* C15: the model is BLOCKING_MODEL until a command changes it, and the only
\* step that changes it is the dispatch of a model command whose name is
\* recognised (or missing); every other command, and a model command with an
\* unrecognised name, leaves it as it was.
C15_ModelChanges ==
    /\ model = "BLOCKING_MODEL"
    /\ [][/\ model' # model => (pc = "prompt" /\ cmd' = "model" /\ outcome' = "ok")
          /\ (cmd' = "model" /\ outcome' = "usage") => model' = model]_vars

\* C15 witness: a model command with an unrecognised name has returned and the
\* select model chosen earlier is still in force.
C15_Witness ==
    /\ cmd = "model"
    /\ pc = "ret"
    /\ outcome = "usage"
    /\ model = "SELECT_MODEL"

\* C16: under the blocking, select and signal models the post-call phase
\* answers Done whatever the result and on every path, the one where
\* signal(SIGIO, defaultSIGIOHandler) fails included; so the operation is
\* called at most once in a command.
C16_AlwaysDone ==
    model \in {"BLOCKING_MODEL", "SELECT_MODEL", "SIGNAL_MODEL"} =>
        /\ pc = "after" => done
        /\ opCalls <= 1

\* C17: when the call made by socket, connect, accept, recvmsg, sendmsg, read
\* or write fails for good (a negative result that is reported, not retried),
\* the command leaves every slot and the current selection as they were.
C17_FailureKeepsRegistry ==
    (cmd \in LoopCmds \cup {"socket"} /\ pc = "ret" /\ outcome = "error") =>
        /\ gSockfd = gSockfd0
        /\ gCurrent = gCurrent0

\* C18: a command whose retry loop is left because gInterrupted is set
\* reports no result of the operation and commits nothing: every slot and the
\* current selection are as at dispatch, for an interrupted accept in
\* particular.
C18_InterruptCommitsNothing ==
    (cmd \in LoopCmds /\ pc = "ret" /\ outcome = "interrupted") =>
        /\ gInterrupted
        /\ gSockfd = gSockfd0
        /\ gCurrent = gCurrent0

\* C18 witness: accept on a listening socket had a free slot, was interrupted,
\* and has returned with the registry untouched.
C18_Witness ==
    /\ cmd = "accept"
    /\ pc = "ret"
    /\ outcome = "interrupted"
    /\ gSockfd[gCurrent] \in OpenFds
    /\ newgCurrent # gCurrent
    /\ gSockfd[newgCurrent] = UNUSED_FD

\* C19: gInterrupted is cleared when a command is dispatched, so an interrupt
\* delivered during an earlier command or at the prompt never makes the next
\* command's retry loop return; inside a command the flag is set exactly when
\* an interrupt was delivered after its dispatch, and only then is the
\* command abandoned.
C19_FlagClearedAtDispatch ==
    pc # "prompt" =>
        /\ gInterrupted <=> freshInt
        /\ outcome = "interrupted" => freshInt

\* C19 witness: read was dispatched while the flag of an earlier interrupt was
\* still set; it has passed the test after its pre-call phase and is at the
\* call.
C19_Witness ==
    /\ cmd = "read"
    /\ staleInt
    /\ ~freshInt
    /\ pc = "call"

\* The blocking model's post-call phase has classified a call.
BlockingClassified ==
    /\ model = "BLOCKING_MODEL"
    /\ cmd \in LoopCmds
    /\ pc = "after"

\* C20 as stated: under the blocking model the expectation the post-call
\* phase compares with is the one the pre-call phase recorded, true exactly
\* when the condition is not write-ready, whether the call succeeded or failed.
C20_ExpectationIsRecorded ==
    BlockingClassified =>
        oracle.expected = (neededCondition(cmd) # "WRITE_READY")

\* C20 amended: the pre-call phase records shouldBlock, true exactly when the
\* condition is not write-ready; the post-call phase compares with
\* shouldBlock && result >= 0, so a failed call is expected not to have
\* blocked whatever its condition.
C20_ExpectationNeedsSuccess ==
    BlockingClassified =>
        /\ oracle.ran
        /\ shouldBlock = (neededCondition(cmd) # "WRITE_READY")
        /\ oracle.expected = (shouldBlock /\ result >= 0)

\* C20 witness: a read that failed under the blocking model was compared with
\* "did not block" although shouldBlock was recorded as TRUE.
C20_Witness ==
    /\ BlockingClassified
    /\ cmd = "read"
    /\ gSockfd[gCurrent] \in OpenFds
    /\ result < 0
    /\ shouldBlock
    /\ ~oracle.expected

\* The descriptor that was current when the running command was dispatched.
CmdFd == gSockfd0[gCurrent0]

\* A retry-loop command is running under the non-blocking model on an open
\* socket.
NonblockingOnSocket ==
    /\ NonBlocking
    /\ cmd \in LoopCmds
    /\ CmdFd # UNUSED_FD

\* C21: under the non-blocking model O_NONBLOCK is set on the current socket
\* whenever the operation is invoked, and the post-call phase has cleared it
\* when it answers Done or "again": the flag is clear during the pause before
\* a retry, at the start of the next iteration, and when a command that was
\* not interrupted returns.
C21_NonblockWindow ==
    NonblockingOnSocket =>
        /\ pc \in {"call", "post"} => CmdFd \in nonblockFds
        /\ pc = "after" => CmdFd \notin nonblockFds
        /\ (pc = "pre" /\ opCalls > 0) => CmdFd \notin nonblockFds
        /\ (pc = "ret" /\ outcome \in {"ok", "error"}) => CmdFd \notin nonblockFds

\* C21 witness: read answered EWOULDBLOCK twice; in the pause after the second
\* post-call phase the flag is clear.
C21_Witness ==
    /\ NonblockingOnSocket
    /\ cmd = "read"
    /\ pc = "after"
    /\ ~done
    /\ transients = 2
    /\ CmdFd \notin nonblockFds

\* The signal model's post-call phase has run for a retry-loop command.
SignalPostDone ==
    /\ model = "SIGNAL_MODEL"
    /\ cmd \in LoopCmds
    /\ pc = "after"

\* C22: under the signal model, after the post-call phase of any operation
\* that was invoked, SIGIO is handled by defaultSIGIOHandler and O_ASYNC is
\* clear on the current socket.
C22_SignalPostRestores ==
    SignalPostDone =>
        /\ sigioHandler = "defaultSIGIOHandler"
        /\ gSockfd[gCurrent] \notin asyncFds

\* C23: in the signal model's pre-call phase for a read-ready condition the
\* steps come in this order: activeSIGIOHandler is installed, the current
\* socket is claimed (F_SETOWN), sigioReceived is cleared, O_ASYNC is set, and
\* only then the wait loop is entered; sigioReceived is cleared at no other
\* point, in particular never once O_ASYNC has been set by this phase.
C23_SignalPreOrder ==
    [][SignalReadReady =>
          /\ (pc # "sig_setown" /\ pc' = "sig_setown") =>
                /\ pc = "sig_install"
                /\ sigioHandler' = "activeSIGIOHandler"
          /\ (pc # "sig_clear" /\ pc' = "sig_clear") =>
                /\ pc = "sig_setown"
                /\ sigioHandler = "activeSIGIOHandler"
                /\ gSockfd[gCurrent] \in ownedFds'
          /\ (pc # "sig_async" /\ pc' = "sig_async") =>
                /\ pc = "sig_clear"
                /\ ~sigioReceived'
                /\ gSockfd[gCurrent] \in ownedFds
          /\ (pc \notin {"sig_wait", "sig_sleep"} /\ pc' = "sig_wait") =>
                /\ pc = "sig_async"
                /\ sigioHandler' = "activeSIGIOHandler"
                /\ gSockfd[gCurrent] \in (ownedFds' \cap asyncFds')
          /\ (pc # "sig_sleep" /\ pc' = "sig_sleep") => pc = "sig_wait"
          /\ (sigioReceived /\ ~sigioReceived') => pc = "sig_clear"]_vars

\* C23 witness: read under the signal model sleeps in the wait loop with the
\* active handler installed, the socket claimed, O_ASYNC set and no SIGIO
\* received yet.
C23_Witness ==
    /\ SignalReadReady
    /\ cmd = "read"
    /\ pc = "sig_sleep"
    /\ sigioHandler = "activeSIGIOHandler"
    /\ gSockfd[gCurrent] \in (ownedFds \cap asyncFds)
    /\ waitBegun
    /\ ~sigioReceived

\* C24: in every model and on every path through the pre-call phase, the
\* timestamp a classification uses was taken in the same iteration, after the
\* waiting of the pre-call phase and just before the operation: no time has
\* passed since callTime when the operation is invoked, and what is classified
\* is the time the operation itself took.
C24_FreshTimestamp ==
    cmd \in LoopCmds =>
        /\ pc = "call" => delta = 0
        /\ pc = "after" => (oracle.ran /\ oracle.blocked = (opDur > BLOCK_THRESHOLD))

\* returnTime is more than one second after callTime, read off the two
\* readings field by field.
LaterByMoreThanASecond ==
    \/ returnTime.tv_sec - callTime.tv_sec >= 2
    \/ /\ returnTime.tv_sec - callTime.tv_sec = 1
       /\ returnTime.tv_usec > callTime.tv_usec

\* C25: the oracle classifies a call as blocked exactly when the elapsed time,
\* (seconds difference) * 1,000,000 + (microseconds difference), is strictly
\* greater than 1,000,000 us: exactly 1,000,000 us is "did not block", and so
\* is an elapsed time whose microseconds difference is negative across a second
\* boundary and that totals at most the threshold.
C25_ThresholdStrict ==
    pc = "classified" =>
        /\ delta = (returnTime.tv_sec - callTime.tv_sec) * 1000000
                       + (returnTime.tv_usec - callTime.tv_usec)
        /\ oracle.blocked <=> delta > 1000000
        /\ oracle.blocked <=> LaterByMoreThanASecond
        /\ delta = 1000000 => ~oracle.blocked
        /\ (returnTime.tv_usec < callTime.tv_usec /\ delta <= 1000000) =>
              ~oracle.blocked

\* C25 witness: the call started at 0.999999 s and returned at 1.999999 s,
\* exactly one second later, and is classified as not having blocked.
C25_Witness ==
    /\ pc = "classified"
    /\ callTime = [tv_sec |-> 0, tv_usec |-> 999999]
    /\ returnTime = [tv_sec |-> 1, tv_usec |-> 999999]
    /\ delta = BLOCK_THRESHOLD
    /\ ~oracle.blocked

\* C26: a mismatch reported by the oracle is diagnostic only.  In every model
\* the answer of the post-call phase is fixed by the model, the result and
\* errno alone (the answer left indeterminate by a failed signal() aside), the
\* post-call phase changes no slot, selection or model, it changes descriptor
\* flags only as its model prescribes, and the command then reports the result
\* and, for accept, binds the new descriptor, all of it with or without a
\* mismatch.
C26_MismatchDiagnosticOnly ==
    [][/\ (pc = "post" /\ pc' = "after") =>
             /\ UNCHANGED <<regVars, model, result, errno, ownedFds>>
             /\ sigErrs' = sigErrs =>
                   done' = (model = "NONBLOCKING_MODEL" =>
                               (result >= 0 \/ errno \notin TransientErrnos))
             /\ nonblockFds' = IF model = "NONBLOCKING_MODEL"
                               THEN nonblockFds \ {gSockfd[gCurrent]}
                               ELSE nonblockFds
             /\ asyncFds' = IF model = "SIGNAL_MODEL" /\ sigErrs' = sigErrs
                            THEN asyncFds \ {gSockfd[gCurrent]}
                            ELSE asyncFds
       /\ (pc = "after" /\ pc' = "ret") =>
             /\ outcome' = IF result < 0 THEN "error" ELSE "ok"
             /\ UNCHANGED <<model, result, nonblockFds, sigVars>>
             /\ regVars' = IF cmd = "accept" /\ result >= 0
                           THEN <<[gSockfd EXCEPT ![newgCurrent] = result],
                                  newgCurrent>>
                           ELSE regVars]_vars

\* C26 witness: accept under the blocking model returned a descriptor at once,
\* "Error - API did not block." was reported, and the command has bound the
\* descriptor and made it current all the same.
C26_Witness ==
    /\ cmd = "accept"
    /\ pc = "ret"
    /\ Mismatch(oracle)
    /\ outcome = "ok"
    /\ result >= 0
    /\ gSockfd[gCurrent] = result
    /\ gCurrent = newgCurrent

\* The positions of a command inside its retry loop, from the first pre-call
\* phase to the answer of the last post-call phase.
LoopPcs ==
    {"pre", "sel_call", "sel_test", "sig_install", "sig_setown", "sig_clear",
     "sig_async", "sig_wait", "sig_sleep", "check", "call", "post", "after"}

\* C27: from the first pre-call phase to the last post-call phase of a
\* command's retry loop no slot, the current selection and the model do not
\* change, so every phase and call of the command acts on the socket and under
\* the model found at dispatch; the one change to the registry a retry-loop
\* command makes is accept's, after its loop has ended with a result >= 0:
\* the new descriptor goes to the slot found before the loop and that slot
\* becomes current.
C27_LoopKeepsRegistry ==
    [][(cmd \in LoopCmds /\ pc \in LoopPcs) =>
          /\ gSockfd = gSockfd0
          /\ gCurrent = gCurrent0
          /\ model' = model
          /\ regVars' # regVars =>
                /\ cmd = "accept"
                /\ pc = "after"
                /\ done
                /\ result >= 0
                /\ pc' = "ret"
                /\ gSockfd' = [gSockfd EXCEPT ![newgCurrent] = result]
                /\ gCurrent' = newgCurrent]_vars

\* C27 witness: accept under the non-blocking model was retried once, the
\* registry staying as at dispatch, and has then bound the new descriptor to
\* the free slot and selected it.
C27_Witness ==
    /\ cmd = "accept"
    /\ pc = "ret"
    /\ opCalls = 2
    /\ outcome = "ok"
    /\ gCurrent0 # newgCurrent
    /\ gSockfd = [gSockfd0 EXCEPT ![newgCurrent] = result]
    /\ gCurrent = newgCurrent

\* The unused slots of the registry as the running command found it.
UnusedAtDispatch == {i \in Slots : gSockfd0[i] = UNUSED_FD}

\* C28: a successful allocation binds the lowest-index unused slot.  Whenever
\* socket or accept runs on a registry with an unused slot it is not refused
\* and the slot it picks is the least unused index; when the call succeeds the
\* new descriptor is stored there, that slot becomes current, and every other
\* slot is as before.
C28_LowestUnusedSlot ==
    (Allocating /\ pc = "ret" /\ outcome # "usage" /\ UnusedAtDispatch # {}) =>
        /\ outcome # "refused"
        /\ newgCurrent \in UnusedAtDispatch
        /\ \A i \in UnusedAtDispatch : newgCurrent <= i
        /\ outcome = "ok" =>
              /\ result >= 0
              /\ gSockfd[newgCurrent] = result
              /\ gCurrent = newgCurrent
              /\ \A i \in Slots \ {newgCurrent} : gSockfd[i] = gSockfd0[i]

\* C28 witness: slot 1 was closed while slot 2 was in use and slots 5 to 9
\* had never been used; the socket command that follows has filled slot 1.
C28_Witness ==
    /\ cmd = "socket"
    /\ pc = "ret"
    /\ outcome = "ok"
    /\ gSockfd0[1] = UNUSED_FD
    /\ gSockfd0[2] # UNUSED_FD
    /\ gSockfd0[5] = UNUSED_FD
    /\ gCurrent = 1
    /\ gSockfd[1] = result

\* gInterrupted was set while a blocking-model command was in its operation
\* (after the test that follows the pre-call phase).
BlockingInFlight ==
    /\ model = "BLOCKING_MODEL"
    /\ cmd \in LoopCmds
    /\ gInterrupted
    /\ pc \in {"call", "post", "after"}

\* C29: under the blocking model an interrupt that arrives while the operation
\* is in flight does not cancel the command: the operation is followed by the
\* post-call phase, which classifies and answers Done, the loop ends after
\* that one call, and the result is reported as without the interrupt (error
\* for a negative result, success otherwise, accept binding its descriptor).
C29_InFlightInterrupt ==
    [][BlockingInFlight =>
          /\ opCalls' <= 1
          /\ pc = "call" => pc' \in {"call", "post"}
          /\ pc = "post" =>
                /\ pc' \in {"post", "after"}
                /\ pc' = "after" => (done' /\ oracle'.ran /\ result' = result)
          /\ pc = "after" =>
                /\ pc' \in {"after", "ret"}
                /\ pc' = "ret" =>
                      /\ outcome' = IF result < 0 THEN "error" ELSE "ok"
                      /\ result' = result
                      /\ regVars' = IF cmd = "accept" /\ result >= 0
                                    THEN <<[gSockfd EXCEPT ![newgCurrent] = result],
                                           newgCurrent>>
                                    ELSE regVars]_vars

\* C29 witness: connect under the blocking model blocked for longer than the
\* threshold, the interrupt arrived meanwhile, and the command has returned
\* success after its one call.
C29_Witness ==
    /\ model = "BLOCKING_MODEL"
    /\ cmd = "connect"
    /\ pc = "ret"
    /\ gInterrupted
    /\ freshInt
    /\ opCalls = 1
    /\ opDur > BLOCK_THRESHOLD
    /\ oracle.ran
    /\ outcome = "ok"

\* C30: whenever a command handler has returned, normally, on an error or
\* because of an interrupt, no socket is left with O_NONBLOCK set.
C30_NoSocketLeftNonblocking ==
    pc \in {"ret", "prompt"} => nonblockFds = {}

\* C31: whenever a command handler has returned, normally, on an error or
\* because of an interrupt during the signal model's wait, activeSIGIOHandler
\* is not installed and O_ASYNC is set on no socket.
C31_NoSignalStateLeft ==
    pc \in {"ret", "prompt"} =>
        /\ sigioHandler # "activeSIGIOHandler"
        /\ asyncFds = {}

\* C32: in the signal model's pre-call phase for a read-ready condition a
\* SIGIO delivered at any point after activeSIGIOHandler was installed is not
\* lost: once the phase is past the clearing of sigioReceived and in its wait,
\* a notification seen since the installation is still pending, so the wait
\* loop ends on it without an interrupt; for every interleaving and every
\* earlier state of the descriptor.
C32_SigioNeverLost ==
    (SignalReadReady /\ pc \in {"sig_async", "sig_wait", "sig_sleep"} /\ sigioSeen) =>
        sigioReceived

\* C33: in every reachable state each of the ten slots holds UNUSED_FD (-1) or
\* a non-negative descriptor that a successful socket() or accept() returned:
\* a slot comes into use only by the step in which socket or accept succeeds,
\* with the descriptor returned, and a failed socket() or accept() leaves the
\* set of slots in use as it was.
C33_SlotsHoldDescriptors ==
    /\ [](\A i \in Slots : gSockfd[i] = UNUSED_FD \/ gSockfd[i] >= 0)
    /\ [][/\ \A i \in Slots :
                (gSockfd'[i] # gSockfd[i] /\ gSockfd'[i] # UNUSED_FD) =>
                    /\ cmd' \in {"socket", "accept"}
                    /\ outcome' = "ok"
                    /\ result' >= 0
                    /\ gSockfd'[i] = result'
                    /\ gSockfd[i] = UNUSED_FD
          /\ (cmd' \in {"socket", "accept"} /\ outcome' = "error") =>
                InUse(gSockfd') = InUse(gSockfd)]_vars

\* C33 witness: socket() failed on a registry with two sockets; the slot that
\* was picked holds UNUSED_FD and the two slots in use are as before.
C33_Witness ==
    /\ cmd = "socket"
    /\ pc = "ret"
    /\ outcome = "error"
    /\ result < 0
    /\ gSockfd[newgCurrent] = UNUSED_FD
    /\ InUse(gSockfd) = {0, 1}

====
